---- MODULE Spec2Model ----
(***************************************************************************)
(* Model of system_packages.py: the PackageManager class family.  Three    *)
(* collectors (LogsPackages, MarkedPackages, SnapPackages) parse the text  *)
(* printed by external commands into (pkgs_names, pkgs_dpnds) pairs,       *)
(* sum_pkgs reconciles the Marked and Logs pairs, struct_pkgs classifies   *)
(* the reconciled names and save_data writes one file per group.           *)
(*                                                                         *)
(* A Python str is modelled as a sequence of one-character strings, so     *)
(* that replace, split, strip and the `in` substring test are computed as  *)
(* Python computes them.                                                   *)
(***************************************************************************)
EXTENDS Naturals, Sequences, FiniteSets, TLC

VARIABLES
    host,        \* what the external commands print on this machine
    _childs,     \* PackageManager._childs: every instance ever created
    ret,         \* outcome of the last call made on the class family
    calls,       \* consecutive sum_pkgs() calls since the last other call
    pkg_dpnd,    \* argument of _parse_dpnds
    parsed,      \* value returned by _parse_dpnds
    pkgs_names,  \* argument of struct_pkgs
    result_data, \* value returned by struct_pkgs
    kwargs,      \* argument of save_data
    folder,      \* whether the backup folder exists
    files        \* content of the files of the backup folder

vars == <<host, _childs, ret, calls, pkg_dpnd, parsed, pkgs_names,
          result_data, kwargs, folder, files>>

-----------------------------------------------------------------------------
(* Python str primitives *)

\* old in s
Contains(s, old) ==
    \E i \in 1..(Len(s) + 1) :
        /\ i + Len(old) - 1 <= Len(s)
        /\ SubSeq(s, i, i + Len(old) - 1) = old

StartsWith(s, old) ==
    /\ Len(old) <= Len(s)
    /\ SubSeq(s, 1, Len(old)) = old

\* s.replace(old, new), old not empty: leftmost occurrences, not overlapping
RECURSIVE replace(_, _, _)
replace(s, old, new) ==
    IF Len(s) < Len(old) THEN s
    ELSE IF StartsWith(s, old)
         THEN new \o replace(SubSeq(s, Len(old) + 1, Len(s)), old, new)
         ELSE <<Head(s)>> \o replace(Tail(s), old, new)

\* s.split(sep), sep not empty; cur is the piece being read
RECURSIVE splitFrom(_, _, _)
splitFrom(s, sep, cur) ==
    IF Len(s) < Len(sep) THEN <<cur \o s>>
    ELSE IF StartsWith(s, sep)
         THEN <<cur>> \o splitFrom(SubSeq(s, Len(sep) + 1, Len(s)), sep, <<>>)
         ELSE splitFrom(Tail(s), sep, Append(cur, Head(s)))

split(s, sep) == splitFrom(s, sep, <<>>)

\* the characters str.strip() removes (those this model's texts can hold)
Whitespace == {" ", "\n", "\t", "\r", "\f"}

RECURSIVE lstrip(_)
lstrip(s) ==
    IF s # <<>> /\ Head(s) \in Whitespace THEN lstrip(Tail(s)) ELSE s

RECURSIVE rstrip(_)
rstrip(s) ==
    IF s # <<>> /\ s[Len(s)] \in Whitespace
    THEN rstrip(SubSeq(s, 1, Len(s) - 1))
    ELSE s

strip(s) == rstrip(lstrip(s))

\* list(filter(pred, xs)) for the predicate "trigger in line"
RECURSIVE filterContains(_, _)
filterContains(xs, trigger) ==
    IF xs = <<>> THEN <<>>
    ELSE IF Contains(Head(xs), trigger)
         THEN <<Head(xs)>> \o filterContains(Tail(xs), trigger)
         ELSE filterContains(Tail(xs), trigger)

\* set(xs)
Range(xs) == {xs[i] : i \in DOMAIN xs}

\* x1 + x2 + ... for a list of strings
RECURSIVE Concat(_)
Concat(xs) == IF xs = <<>> THEN <<>> ELSE Head(xs) \o Concat(Tail(xs))

-----------------------------------------------------------------------------
(* String literals of the source *)

Package_ == <<"P","a","c","k","a","g","e",":"," ">>
Depends_ == <<"D","e","p","e","n","d","s",":"," ">>
Pre_ == <<"P","r","e","-">>
Bar == <<"|">>
CommaSpace == <<","," ">>
Space == <<" ">>
NL == <<"\n">>
NLNL == <<"\n","\n">>
pyth == <<"p","y","t","h">>
lib == <<"l","i","b">>
snap_store == <<"s","n","a","p","-","s","t","o","r","e">>

PKG_NAME_TRIGGER == Package_
PKG_DEPENDS_TRIGGER == Depends_

IGNORED_PKGS ==
    << <<"c","a","n","o","n","i","c","a","l">>,
       <<"c","o","r","e">>,
       <<"c","h","r","o","m","i","u","m","-","f","f","m","p","e","g">>,
       <<"q","t","5","1","3">>,
       <<"s","n","a","p","d">>,
       <<"u","f","w">>,
       <<"g","n","o","m","e">>,
       <<"k","d","e">> >>

-----------------------------------------------------------------------------
(* Parsing helpers of PackageManager *)

_separate_all_info(info) == split(info, NLNL)

_separate_pkg_info(info) == split(info, NL)

_separate_structured_info(info, name_trigger, depends_trigger) ==
    LET names == filterContains(info, name_trigger)
        dpnds == filterContains(info, depends_trigger)
    IN  << IF Len(names) > 0 THEN replace(names[1], Package_, <<>>) ELSE <<>>,
           IF Len(dpnds) > 0 THEN replace(dpnds[1], Depends_, <<>>) ELSE <<>> >>

\* x.split(' ')[0]
FirstField(x) == split(x, Space)[1]

\* _parse_dpnds without replace('Pre-', '')
_parse_dpnds_keep_pre(dpnd) ==
    LET entries == split(strip(replace(dpnd, Bar, <<>>)), CommaSpace)
    IN  [i \in DOMAIN entries |-> FirstField(entries[i])]

_parse_dpnds(dpnd) ==
    LET entries == split(strip(replace(replace(dpnd, Pre_, <<>>), Bar, <<>>)),
                         CommaSpace)
    IN  [i \in DOMAIN entries |-> FirstField(entries[i])]

-----------------------------------------------------------------------------
(* Collectors *)

\* the loop shared by LogsPackages.main and MarkedPackages.main: infos is the
\* list of the records read, each already cut into lines
RECURSIVE collect(_, _, _)
collect(infos, names, dpnds) ==
    IF infos = <<>> THEN <<names, dpnds>>
    ELSE LET pkg == _separate_structured_info(Head(infos), PKG_NAME_TRIGGER,
                                              PKG_DEPENDS_TRIGGER)
             names2 == IF Len(pkg[1]) > 0 THEN Append(names, pkg[1]) ELSE names
             dpnds2 == IF Len(pkg[2]) > 0 THEN dpnds \o _parse_dpnds(pkg[2])
                       ELSE dpnds
         IN  collect(Tail(infos), names2, dpnds2)

\* store with line 168 (208, 245) left out: the names keep their dependencies
store_keep_dpnds(kind, names, dpnds) ==
    [kind |-> kind, has_attrs |-> TRUE,
     pkgs_names |-> Range(names),
     pkgs_dpnds |-> Range(dpnds)]

\* the last three lines of every main(): names and dpnds are lists
store(kind, names, dpnds) ==
    [kind |-> kind, has_attrs |-> TRUE,
     pkgs_names |-> Range(names) \ Range(dpnds),
     pkgs_dpnds |-> Range(dpnds)]

\* a collector right after __new__: pkgs_names and pkgs_dpnds are not set
instance(kind) ==
    [kind |-> kind, has_attrs |-> FALSE, pkgs_names |-> {}, pkgs_dpnds |-> {}]

\* h is the machine the commands run on
LogsPackages_main(h) ==
    LET pkgs_info == _separate_all_info(h.initial_status)
        infos == [i \in DOMAIN pkgs_info |-> _separate_pkg_info(pkgs_info[i])]
        got == collect(infos, <<>>, <<>>)
    IN  store("LogsPackages", got[1], got[2])

\* apt show {pkg_name}: nothing on stdout for a package apt does not know
apt_show(h, pkg_name) ==
    IF pkg_name \in DOMAIN h.apt_show THEN h.apt_show[pkg_name] ELSE <<>>

MarkedPackages_main(h) ==
    LET pkgs_pre_names == _separate_pkg_info(h.showmanual)
        infos == [i \in DOMAIN pkgs_pre_names |->
                     _separate_pkg_info(apt_show(h, pkgs_pre_names[i]))]
        got == collect(infos, <<>>, <<>>)
    IN  store("MarkedPackages", got[1], got[2])

\* list(filter(lambda elem: len(elem) > 0, xs))
RECURSIVE nonEmpty(_)
nonEmpty(xs) ==
    IF xs = <<>> THEN <<>>
    ELSE IF Len(Head(xs)) > 0 THEN <<Head(xs)>> \o nonEmpty(Tail(xs))
         ELSE nonEmpty(Tail(xs))

\* rm_pkg comparing whole names: "pkgs in self.IGNORED_PKGS"
rm_pkg_exact(pkgs) == \A i \in DOMAIN IGNORED_PKGS : pkgs # IGNORED_PKGS[i]

rm_pkg(pkgs) == \A i \in DOMAIN IGNORED_PKGS : ~Contains(pkgs, IGNORED_PKGS[i])

\* [pkg[0] for pkg in pkgs_info if len(pkg) > 0], then filter(rm_pkg, ...)
RECURSIVE snapNames(_)
snapNames(pkgs_info) ==
    IF pkgs_info = <<>> THEN <<>>
    ELSE LET pkg == nonEmpty(split(Head(pkgs_info), Space))
         IN  IF Len(pkg) > 0 /\ rm_pkg(pkg[1])
             THEN <<pkg[1]>> \o snapNames(Tail(pkgs_info))
             ELSE snapNames(Tail(pkgs_info))

SnapPackages_main(h) ==
    LET pkgs_info == Tail(_separate_pkg_info(h.snap_list))
    IN  store("SnapPackages", snapNames(pkgs_info), <<snap_store>>)

-----------------------------------------------------------------------------
(* Reconciliation *)

Unbound == [bound |-> FALSE, names |-> {}, dpnds |-> {}]

NoValue == [status |-> "none", names |-> {}, dpnds |-> {}]

Raised(error) == [status |-> error, names |-> {}, dpnds |-> {}]

\* sum_loop keeping the first instance of each kind instead of the last
RECURSIVE sum_loop_first(_, _, _)
sum_loop_first(childs, mark_pkgs, logs_pkgs) ==
    IF childs = <<>> THEN [raised |-> FALSE, mark |-> mark_pkgs, logs |-> logs_pkgs]
    ELSE LET child == Head(childs)
             pair == [bound |-> TRUE, names |-> child.pkgs_names,
                      dpnds |-> child.pkgs_dpnds]
         IN  IF child.kind \in {"MarkedPackages", "LogsPackages"}
                /\ ~child.has_attrs
             THEN [raised |-> TRUE, mark |-> mark_pkgs, logs |-> logs_pkgs]
             ELSE sum_loop_first(Tail(childs),
                           IF child.kind = "MarkedPackages" /\ ~mark_pkgs.bound
                           THEN pair ELSE mark_pkgs,
                           IF child.kind = "LogsPackages" /\ ~logs_pkgs.bound
                           THEN pair ELSE logs_pkgs)

\* lines 35-39: the loop over cls._childs; reading pkgs_names of an instance
\* whose main() has not run raises AttributeError
RECURSIVE sum_loop(_, _, _)
sum_loop(childs, mark_pkgs, logs_pkgs) ==
    IF childs = <<>> THEN [raised |-> FALSE, mark |-> mark_pkgs, logs |-> logs_pkgs]
    ELSE LET child == Head(childs)
             pair == [bound |-> TRUE, names |-> child.pkgs_names,
                      dpnds |-> child.pkgs_dpnds]
         IN  IF child.kind \in {"MarkedPackages", "LogsPackages"}
                /\ ~child.has_attrs
             THEN [raised |-> TRUE, mark |-> mark_pkgs, logs |-> logs_pkgs]
             ELSE sum_loop(Tail(childs),
                           IF child.kind = "MarkedPackages" THEN pair
                           ELSE mark_pkgs,
                           IF child.kind = "LogsPackages" THEN pair
                           ELSE logs_pkgs)

\* difference with an index slip on line 42: logs_pkgs[0] for logs_pkgs[1]
difference_slip(mark_pkgs, logs_pkgs) ==
    LET names == mark_pkgs.names \ logs_pkgs.names
        dpnds == mark_pkgs.dpnds \ logs_pkgs.names
    IN  [status |-> "returned", names |-> names \ dpnds, dpnds |-> dpnds]

\* lines 41-44
difference(mark_pkgs, logs_pkgs) ==
    LET names == mark_pkgs.names \ logs_pkgs.names
        dpnds == mark_pkgs.dpnds \ logs_pkgs.dpnds
    IN  [status |-> "returned", names |-> names \ dpnds, dpnds |-> dpnds]

\* sum_pkgs computing with -= on the sets of the Marked instances
sum_pkgs_inplace(childs) ==
    LET found == sum_loop(childs, Unbound, Unbound)
        out == IF found.raised THEN Raised("AttributeError")
               ELSE IF ~found.mark.bound \/ ~found.logs.bound
                    THEN Raised("UnboundLocalError")
                    ELSE difference(found.mark, found.logs)
    IN  [ret |-> out,
         childs |-> [i \in DOMAIN childs |->
                        IF out.status = "returned"
                           /\ childs[i].kind = "MarkedPackages"
                        THEN [childs[i] EXCEPT !.pkgs_names = out.names,
                                               !.pkgs_dpnds = out.dpnds]
                        ELSE childs[i]]]

\* sum_pkgs with mark_pkgs and logs_pkgs set to empty pairs before the loop
sum_pkgs_default(childs) ==
    LET found == sum_loop(childs, Unbound, Unbound)
    IN  [ret |-> IF found.raised THEN Raised("AttributeError")
                 ELSE difference(found.mark, found.logs),
         childs |-> childs]

\* the value sum_pkgs returns (or the error it raises) and the registry it leaves
sum_pkgs(childs) ==
    LET found == sum_loop(childs, Unbound, Unbound)
    IN  [ret |-> IF found.raised THEN Raised("AttributeError")
                 ELSE IF ~found.mark.bound \/ ~found.logs.bound
                      THEN Raised("UnboundLocalError")
                      ELSE difference(found.mark, found.logs),
         childs |-> childs]

-----------------------------------------------------------------------------
(* Classification *)

\* lines 59-61: result_data['snap_pkgs'] = child.pkgs_names for every Snap
\* instance, in order; reading pkgs_names before main() ran raises
RECURSIVE struct_loop(_, _)
struct_loop(childs, data) ==
    IF childs = <<>> THEN [status |-> "returned", value |-> data]
    ELSE LET child == Head(childs)
         IN  IF child.kind # "SnapPackages" THEN struct_loop(Tail(childs), data)
             ELSE IF ~child.has_attrs
                  THEN [status |-> "AttributeError", value |-> data]
                  ELSE struct_loop(Tail(childs),
                                   ("snap_pkgs" :> child.pkgs_names) @@ data)

\* struct_pkgs without line 55
struct_pkgs_keep_py(childs, names) ==
    LET py_pkgs == {pkg \in names : Contains(pkg, pyth)}
        lib_pkgs == {pkg \in names : Contains(pkg, lib)}
        gen_pkgs == (names \ py_pkgs) \ lib_pkgs
    IN  struct_loop(childs, ("gen_pkgs" :> gen_pkgs) @@ ("py_pkgs" :> py_pkgs)
                            @@ ("lib_pkgs" :> lib_pkgs))

struct_pkgs(childs, names) ==
    LET py_pkgs == {pkg \in names : Contains(pkg, pyth)}
        lib_pkgs == {pkg \in names : Contains(pkg, lib)} \ py_pkgs
        gen_pkgs == (names \ py_pkgs) \ lib_pkgs
    IN  struct_loop(childs, ("gen_pkgs" :> gen_pkgs) @@ ("py_pkgs" :> py_pkgs)
                            @@ ("lib_pkgs" :> lib_pkgs))

-----------------------------------------------------------------------------
(* Persistence *)

\* the orders in which "for v in value" can visit a set
Orders(value) ==
    {order \in [1..Cardinality(value) -> value] :
        \A i, j \in DOMAIN order : order[i] = order[j] => i = j}

\* the text written by lines 77-78 for one order of the set
Written(order) == Concat([i \in DOMAIN order |-> order[i] \o NL])

\* open(..., 'a') for open(..., 'w'): the text is added to what the file held
write_append(fs, key, text) ==
    IF key \in DOMAIN fs THEN (key :> (fs[key] \o text)) @@ fs
    ELSE (key :> text) @@ fs

\* lines 76-78: open(..., 'w') truncates or creates the file of the key
write(fs, key, text) == (key :> text) @@ fs

\* the files after save_data wrote the keys, each set in the order chosen
RECURSIVE save_loop(_, _, _)
save_loop(fs, keys, orders) ==
    IF keys = {} THEN fs
    ELSE LET key == CHOOSE k \in keys : TRUE
         IN  save_loop(write(fs, key, Written(orders[key])), keys \ {key},
                       orders)

-----------------------------------------------------------------------------
(* The machines the commands run on *)

bash == <<"b","a","s","h">>
coreutils == <<"c","o","r","e","u","t","i","l","s">>
vim == <<"v","i","m">>
python3_foo == <<"p","y","t","h","o","n","3","-","f","o","o">>
libc6 == <<"l","i","b","c","6">>
libssl_dev == <<"l","i","b","s","s","l","-","d","e","v">>
dpkg == <<"d","p","k","g">>
apt == <<"a","p","t">>
core == <<"c","o","r","e">>
some_editor == <<"s","o","m","e","-","e","d","i","t","o","r">>
chromium_ffmpeg == <<"c","h","r","o","m","i","u","m","-","f","f","m","p","e","g">>
kde_frameworks == <<"k","d","e","-","f","r","a","m","e","w","o","r","k","s">>
vlc == <<"v","l","c">>
foo == <<"f","o","o">>
bar == <<"b","a","r">>
baz == <<"b","a","z">>
qux == <<"q","u","x">>
Header == <<"N","a","m","e"," "," ","V","e","r","s","i","o","n">>
Version == <<" ","(",">","="," ","1",".","0",")">>
Rev == <<" ","1","6">>

\* the host of the spec's reconciler and snap scenarios
Host1 ==
    [initial_status |-> Concat(<<Package_, bash, NLNL, Package_, coreutils, NL>>),
     showmanual |-> Concat(<<bash, NL, vim, NL, python3_foo, NL>>),
     apt_show |->
        (bash :> Concat(<<Package_, bash, NL>>)) @@
        (vim :> Concat(<<Package_, vim, NL, Depends_, coreutils, NL>>)) @@
        (python3_foo :> Concat(<<Package_, python3_foo, NL>>)),
     snap_list |-> Concat(<<Header, NL, core, Rev, NL, some_editor, Rev, NL,
                            chromium_ffmpeg, Rev, NL>>)]

\* a host whose install log lists libc6 both as a package and as a dependency,
\* where the marked libssl-dev is a dependency of the marked vim, where vim
\* has a Pre-Depends line before its Depends line, and where the list of the
\* marked packages ends with an empty line
Host2 ==
    [initial_status |-> Concat(<<Package_, bash, NL, Depends_, libc6, Version,
                                 CommaSpace, dpkg, NLNL, Package_, libc6, NL>>),
     showmanual |-> Concat(<<libc6, NL, vim, NL, libssl_dev, NLNL>>),
     apt_show |->
        (libc6 :> Concat(<<Package_, libc6, NL>>)) @@
        (vim :> Concat(<<Package_, vim, NL, Pre_, Depends_, dpkg, Space, Bar,
                         Space, apt, CommaSpace, libssl_dev, Version, NL,
                         Depends_, libc6, NL>>)) @@
        (libssl_dev :> Concat(<<Package_, libssl_dev, NL>>)),
     snap_list |-> Concat(<<Header, NL, snap_store, Rev, NL, Space, Space, NL,
                            NL, kde_frameworks, Rev, NL, Space, vlc, Space,
                            Rev, NL>>)]

\* a host where every command fails or prints nothing
Host3 ==
    [initial_status |-> <<>>, showmanual |-> <<>>, apt_show |-> <<>>,
     snap_list |-> <<>>]

Hosts == {Host1, Host2, Host3}

MaxRows == 3

\* rows of a snap listing: names of the ignore-list, names that contain one,
\* the placeholder, blank rows, rows with leading and repeated spaces, and a
\* row whose publisher column holds an ignore-list entry
Rows ==
    {core \o Rev,
     some_editor \o Rev,
     chromium_ffmpeg \o Rev,
     kde_frameworks \o Rev,
     snap_store \o Rev,
     <<>>,
     <<" ", " ">>,
     Concat(<<Space, vlc, Space, Rev, Space, IGNORED_PKGS[1]>>)}

RECURSIVE Listings(_)
Listings(n) ==
    IF n = 0 THEN {Header}
    ELSE Listings(n - 1)
         \cup {l \o NL \o r : l \in Listings(n - 1), r \in Rows}

\* hosts that differ in what "snap list" prints: nothing, or a header and
\* up to MaxRows rows
SnapHosts ==
    {[Host3 EXCEPT !.snap_list = l] : l \in Listings(MaxRows) \cup {<<>>}}

\* what each main() stores on each host, computed once per host
LogsStored == [h \in Hosts |-> LogsPackages_main(h)]
MarkedStored == [h \in Hosts |-> MarkedPackages_main(h)]
SnapStored == [h \in Hosts \cup SnapHosts |-> SnapPackages_main(h)]

-----------------------------------------------------------------------------
(* The class family as a state machine *)

MaxChilds == 3
MaxCalls == 2

Kinds == {"MarkedPackages", "LogsPackages", "SnapPackages"}

NotCalled == [called |-> FALSE, value |-> <<>>]

NotStructured == [called |-> FALSE, status |-> "none", value |-> <<>>]

Outcome(status) == [status |-> status, names |-> {}, dpnds |-> {}]

\* the variables of the pure functions and of save_data, at rest
Rest ==
    /\ pkg_dpnd = <<>>
    /\ parsed = NotCalled
    /\ pkgs_names = {}
    /\ result_data = NotStructured
    /\ kwargs = <<>>
    /\ folder = FALSE
    /\ files = <<>>

restVars == <<pkg_dpnd, parsed, pkgs_names, result_data, kwargs, folder, files>>

Init ==
    /\ host \in Hosts
    /\ _childs = <<>>
    /\ ret = NoValue
    /\ calls = 0
    /\ Rest

\* PackageManager.__new__, reached through MarkedPackages(), LogsPackages()
\* or SnapPackages()
New(kind) ==
    /\ Len(_childs) < MaxChilds
    /\ _childs' = Append(_childs, instance(kind))
    /\ ret' = NoValue
    /\ calls' = 0
    /\ UNCHANGED <<host, restVars>>

LogsMain(i) ==
    /\ _childs[i].kind = "LogsPackages"
    /\ _childs' = [_childs EXCEPT ![i] = LogsStored[host]]
    /\ ret' = NoValue
    /\ calls' = 0
    /\ UNCHANGED <<host, restVars>>

MarkedMain(i) ==
    /\ _childs[i].kind = "MarkedPackages"
    /\ _childs' = [_childs EXCEPT ![i] = MarkedStored[host]]
    /\ ret' = NoValue
    /\ calls' = 0
    /\ UNCHANGED <<host, restVars>>

SnapMain(i) ==
    /\ _childs[i].kind = "SnapPackages"
    /\ _childs' = [_childs EXCEPT ![i] = SnapStored[host]]
    /\ ret' = NoValue
    /\ calls' = 0
    /\ UNCHANGED <<host, restVars>>

SumPkgs ==
    /\ calls < MaxCalls
    /\ ret' = sum_pkgs(_childs).ret
    /\ _childs' = sum_pkgs(_childs).childs
    /\ calls' = calls + 1
    /\ UNCHANGED <<host, restVars>>

\* packages are installed or removed between two calls
HostChanges ==
    /\ host' \in Hosts \ {host}
    /\ UNCHANGED <<_childs, ret, calls, restVars>>

Next ==
    \/ \E kind \in Kinds : New(kind)
    \/ \E i \in DOMAIN _childs : LogsMain(i)
    \/ \E i \in DOMAIN _childs : MarkedMain(i)
    \/ \E i \in DOMAIN _childs : SnapMain(i)
    \/ SumPkgs
    \/ HostChanges

Spec == Init /\ [][Next]_vars

-----------------------------------------------------------------------------
(* Properties of the collectors and of sum_pkgs *)

HasLast(kind) == \E i \in DOMAIN _childs : _childs[i].kind = kind

\* the most recently created instance of a kind
Last(kind) ==
    _childs[CHOOSE i \in DOMAIN _childs :
                /\ _childs[i].kind = kind
                /\ \A j \in DOMAIN _childs : j > i => _childs[j].kind # kind]

Completed(kind) ==
    \E i \in DOMAIN _childs : _childs[i].kind = kind /\ _childs[i].has_attrs

\* main() has run on every registered Marked and Logs instance
AllCompleted ==
    \A i \in DOMAIN _childs :
        _childs[i].kind \in {"MarkedPackages", "LogsPackages"}
            => _childs[i].has_attrs

\* the registry without the instances that have a later instance of their kind
RECURSIVE Latest(_)
Latest(childs) ==
    IF childs = <<>> THEN <<>>
    ELSE IF \E j \in 2..Len(childs) : childs[j].kind = Head(childs).kind
         THEN Latest(Tail(childs))
         ELSE <<Head(childs)>> \o Latest(Tail(childs))

Returned == calls > 0 /\ ret.status = "returned"

\* C1: once main() has completed on a collector its pkgs_names and pkgs_dpnds
\* are disjoint, and so is the pair sum_pkgs returns.
C1_Disjoint ==
    /\ \A i \in DOMAIN _childs :
           _childs[i].has_attrs
               => _childs[i].pkgs_names \cap _childs[i].pkgs_dpnds = {}
    /\ Returned => ret.names \cap ret.dpnds = {}

\* a Logs instance that read libc6 both as a record and as a dependency, a
\* Snap and a Marked instance completed, and sum_pkgs returned a pair
C1_Witness ==
    /\ Returned /\ ret.names # {} /\ ret.dpnds # {}
    /\ Completed("SnapPackages")
    /\ HasLast("LogsPackages")
    /\ Last("LogsPackages") = LogsStored[Host2]
    /\ libc6 \in Last("LogsPackages").pkgs_dpnds

\* C2: sum_pkgs returns dependencies = marked.dependencies - logs.dependencies
\* and names = (marked.names - logs.names) - dependencies; the spec's
\* reconciler scenario gives names = {vim, python3-foo}.
C2_Difference ==
    Returned =>
        LET M == Last("MarkedPackages")
            L == Last("LogsPackages")
        IN  /\ \A x \in M.pkgs_dpnds \cup L.pkgs_dpnds \cup ret.dpnds :
                   x \in ret.dpnds <=> (x \in M.pkgs_dpnds /\ x \notin L.pkgs_dpnds)
            /\ \A x \in M.pkgs_names \cup L.pkgs_names \cup ret.names :
                   x \in ret.names <=>
                       (x \in M.pkgs_names /\ x \notin L.pkgs_names
                        /\ x \notin ret.dpnds)
            /\ (/\ L.pkgs_names = {bash, coreutils}
                /\ L.pkgs_dpnds = {}
                /\ M.pkgs_names = {bash, vim, python3_foo}
                /\ M.pkgs_dpnds = {coreutils})
               => ret.names = {vim, python3_foo}

\* sum_pkgs returned on the collector results of the reconciler scenario
C2_Witness ==
    /\ Returned
    /\ Last("LogsPackages").pkgs_names = {bash, coreutils}
    /\ Last("LogsPackages").pkgs_dpnds = {}
    /\ Last("MarkedPackages").pkgs_names = {bash, vim, python3_foo}
    /\ Last("MarkedPackages").pkgs_dpnds = {coreutils}
    /\ ret.names = {vim, python3_foo}

\* the names of the records ('Package: ' lines) of the install log of h
LoggedRecords(h) ==
    LET pkgs_info == _separate_all_info(h.initial_status)
        infos == [i \in DOMAIN pkgs_info |-> _separate_pkg_info(pkgs_info[i])]
    IN  {n \in Range(collect(infos, <<>>, <<>>)[1]) : Len(n) > 0}

\* C3: no package that has a record in the install log is a member of the
\* names sum_pkgs returns after the Marked and Logs collectors ran on that
\* host.
C3_BaseRemoved ==
    (/\ Returned
     /\ Last("LogsPackages") = LogsStored[host]
     /\ Last("MarkedPackages") = MarkedStored[host])
    => ret.names \cap LoggedRecords(host) = {}

\* C8: a sum_pkgs call leaves the registry and every collector's sets as they
\* were, and a second call in succession returns what the first returned.
C8_Idempotent ==
    [][calls' > calls =>
          /\ _childs' = _childs
          /\ calls > 0 => ret' = ret]_vars

\* two sum_pkgs calls in succession, both returning a pair with names in it
C8_Witness == calls = 2 /\ ret.status = "returned" /\ ret.names # {}

\* C9: without a completed Marked instance or without a completed Logs
\* instance sum_pkgs ends in an error and returns no pair.
C9_MissingSource ==
    (calls > 0 /\ (~Completed("MarkedPackages") \/ ~Completed("LogsPackages")))
        => ret.status \in {"AttributeError", "UnboundLocalError"}

\* sum_pkgs called with a completed Logs instance and no Marked instance
C9_Witness ==
    /\ calls > 0
    /\ Completed("LogsPackages")
    /\ ~HasLast("MarkedPackages")
    /\ ret.status = "UnboundLocalError"

\* C10 as claimed: whatever the earlier instances are, when the most recently
\* created Marked and Logs instances give a pair, sum_pkgs returns that pair.
C10_LatestOnly ==
    (calls > 0 /\ sum_pkgs(Latest(_childs)).ret.status = "returned")
        => ret = sum_pkgs(Latest(_childs)).ret

C10_Outcome ==
    calls > 0 =>
        IF AllCompleted THEN ret = sum_pkgs(Latest(_childs)).ret
        ELSE ret.status = "AttributeError"

\* C10 amended: the registry only grows and keeps its instances' kinds; when
\* main() has completed on every registered Marked and Logs instance sum_pkgs
\* gives what it gives on the most recently created instance of each kind
\* alone, and otherwise it raises AttributeError.
C10_LatestOfCompleted ==
    /\ [][/\ Len(_childs') >= Len(_childs)
          /\ \A i \in DOMAIN _childs : _childs'[i].kind = _childs[i].kind]_vars
    /\ []C10_Outcome

\* sum_pkgs returned with two completed Marked instances that differ
C10_Witness ==
    /\ Returned
    /\ \E i, j \in DOMAIN _childs :
           /\ i < j
           /\ _childs[i].kind = "MarkedPackages"
           /\ _childs[j].kind = "MarkedPackages"
           /\ _childs[i].pkgs_names # _childs[j].pkgs_names
           /\ _childs[i].pkgs_dpnds # _childs[j].pkgs_dpnds

-----------------------------------------------------------------------------
(* _parse_dpnds on its own *)

MaxPieces == 5

Pieces == {<<"a">>, Space, <<",">>, Bar, Pre_}

RECURSIVE Texts(_)
Texts(n) ==
    IF n = 0 THEN {<<>>}
    ELSE Texts(n - 1) \cup {t \o p : t \in Texts(n - 1), p \in Pieces}

\* 'foo (>= 1.0), bar | baz, Pre-qux'
ParseExample ==
    Concat(<<foo, Version, CommaSpace, bar, Space, Bar, Space, baz, CommaSpace,
             Pre_, qux>>)

\* the state of the class family when none of its methods has been called
Idle ==
    /\ host = Host3
    /\ _childs = <<>>
    /\ ret = NoValue
    /\ calls = 0

InitParse ==
    /\ Idle
    /\ pkg_dpnd \in Texts(MaxPieces) \cup {ParseExample}
    /\ parsed = NotCalled
    /\ pkgs_names = {}
    /\ result_data = NotStructured
    /\ kwargs = <<>>
    /\ folder = FALSE
    /\ files = <<>>

ParseDpnds ==
    /\ ~parsed.called
    /\ parsed' = [called |-> TRUE, value |-> _parse_dpnds(pkg_dpnd)]
    /\ UNCHANGED <<host, _childs, ret, calls, pkg_dpnd, pkgs_names,
                   result_data, kwargs, folder, files>>

NextParse == ParseDpnds

SpecParse == InitParse /\ [][NextParse]_vars

\* the characters of s outside every occurrence of 'Pre-' in s, '|' left out
Unmarked(s) ==
    LET covered == {i \in DOMAIN s :
                       \E j \in DOMAIN s :
                           /\ j <= i /\ i <= j + 3 /\ j + 3 <= Len(s)
                           /\ s[j] = "P" /\ s[j + 1] = "r"
                           /\ s[j + 2] = "e" /\ s[j + 3] = "-"}
        kept(i) == Cardinality({k \in 1..i : k \notin covered /\ s[k] # "|"})
        n == kept(Len(s))
    IN  [m \in 1..n |-> s[CHOOSE i \in DOMAIN s :
                              i \notin covered /\ s[i] # "|" /\ kept(i) = m]]

\* s without the white space at its two ends
Trimmed(s) ==
    LET solid == {i \in DOMAIN s : s[i] \notin Whitespace}
    IN  IF solid = {} THEN <<>>
        ELSE SubSeq(s, CHOOSE i \in solid : \A j \in solid : i <= j,
                       CHOOSE i \in solid : \A j \in solid : j <= i)

\* the names of a dependency list as the claim words them: of each entry
\* between two ', ' the text before its first space
EntryNames(s) ==
    LET t == Trimmed(Unmarked(s))
        cuts == {i \in DOMAIN t : i < Len(t) /\ t[i] = "," /\ t[i + 1] = " "}
        starts == {1} \cup {i + 2 : i \in cuts}
        stops(p) == {q \in p..Len(t) : t[q] = " " \/ q \in cuts} \cup {Len(t) + 1}
        stop(p) == CHOOSE q \in stops(p) : \A r \in stops(p) : q <= r
    IN  {SubSeq(t, p, stop(p) - 1) : p \in starts}

\* C5: _parse_dpnds removes every 'Pre-' and every '|', trims, splits on ', '
\* and keeps of each entry the text before its first space; the example
\* 'foo (>= 1.0), bar | baz, Pre-qux' gives {foo, bar, qux}.
C5_ParseDpnds ==
    parsed.called =>
        /\ Range(parsed.value) = EntryNames(pkg_dpnd)
        /\ pkg_dpnd = ParseExample => Range(parsed.value) = {foo, bar, qux}

\* _parse_dpnds has returned on the example
C5_Witness ==
    /\ parsed.called
    /\ pkg_dpnd = ParseExample
    /\ Range(parsed.value) = {foo, bar, qux}

-----------------------------------------------------------------------------
(* SnapPackages.main on its own *)

InitSnap ==
    /\ host \in SnapHosts \cup {Host1}
    /\ _childs = <<instance("SnapPackages")>>
    /\ ret = NoValue
    /\ calls = 0
    /\ Rest

NextSnap == \E i \in DOMAIN _childs : SnapMain(i)

SpecSnap == InitSnap /\ [][NextSnap]_vars

\* the lines of a listing after its header line
RowsOf(s) ==
    LET breaks == {i \in DOMAIN s : s[i] = "\n"}
        ends(b) == {e \in breaks : e > b} \cup {Len(s) + 1}
        end(b) == CHOOSE e \in ends(b) : \A f \in ends(b) : e <= f
    IN  {SubSeq(s, b + 1, end(b) - 1) : b \in breaks}

\* the first column of a line that is not blank
FirstColumn(line) ==
    LET solid == {i \in DOMAIN line : line[i] # " "}
        first == CHOOSE i \in solid : \A j \in solid : i <= j
        gaps == {i \in DOMAIN line : i > first /\ line[i] = " "} \cup {Len(line) + 1}
        gap == CHOOSE i \in gaps : \A j \in gaps : i <= j
    IN  SubSeq(line, first, gap - 1)

ListedNames(s) ==
    {FirstColumn(line) : line \in {l \in RowsOf(s) : \E i \in DOMAIN l : l[i] # " "}}

\* C6: after SnapPackages.main() pkgs_names is the set of the first columns
\* of the non-header, non-blank lines that contain no ignore-list entry and
\* are not 'snap-store', and pkgs_dpnds is {'snap-store'}; the rows core,
\* some-editor, chromium-ffmpeg give {some-editor}.
C6_SnapNames ==
    \A i \in DOMAIN _childs :
        (_childs[i].kind = "SnapPackages" /\ _childs[i].has_attrs) =>
            /\ _childs[i].pkgs_names =
                   {n \in ListedNames(host.snap_list) :
                       /\ \A k \in DOMAIN IGNORED_PKGS :
                              \A a, b \in DOMAIN n :
                                  SubSeq(n, a, b) # IGNORED_PKGS[k]
                       /\ n # snap_store}
            /\ _childs[i].pkgs_dpnds = {snap_store}
            /\ host.snap_list = Host1.snap_list
                   => _childs[i].pkgs_names = {some_editor}

\* main() has run on the listing of the snap scenario
C6_Witness ==
    /\ host.snap_list = Host1.snap_list
    /\ _childs[1].has_attrs
    /\ _childs[1].pkgs_names = {some_editor}

-----------------------------------------------------------------------------
(* struct_pkgs on its own *)

pyth_lib == pyth \o lib
libpython3 == Concat(<<lib, pyth, <<"o","n","3">> >>)

NamePool == {vim, python3_foo, libssl_dev, libpython3, pyth_lib, lib, bash}

InitStruct ==
    /\ host = Host1
    /\ _childs \in {<<>>, <<SnapStored[Host1]>>, <<instance("SnapPackages")>>,
                    <<SnapStored[Host1], SnapStored[Host2]>>}
    /\ ret = NoValue
    /\ calls = 0
    /\ pkg_dpnd = <<>>
    /\ parsed = NotCalled
    /\ pkgs_names \in SUBSET NamePool
    /\ result_data = NotStructured
    /\ kwargs = <<>>
    /\ folder = FALSE
    /\ files = <<>>

StructPkgs ==
    /\ ~result_data.called
    /\ result_data' = [called |-> TRUE,
                       status |-> struct_pkgs(_childs, pkgs_names).status,
                       value |-> struct_pkgs(_childs, pkgs_names).value]
    /\ UNCHANGED <<host, _childs, ret, calls, pkg_dpnd, parsed, pkgs_names,
                   kwargs, folder, files>>

NextStruct == StructPkgs

SpecStruct == InitStruct /\ [][NextStruct]_vars

HasPyth(n) ==
    \E i \in DOMAIN n :
        /\ i + 3 <= Len(n)
        /\ n[i] = "p" /\ n[i + 1] = "y" /\ n[i + 2] = "t" /\ n[i + 3] = "h"

HasLib(n) ==
    \E i \in DOMAIN n :
        /\ i + 2 <= Len(n)
        /\ n[i] = "l" /\ n[i + 1] = "i" /\ n[i + 2] = "b"

\* C4: struct_pkgs places each name in exactly one of py_pkgs (it contains
\* 'pyth'), lib_pkgs (otherwise, it contains 'lib') and gen_pkgs (otherwise);
\* {vim, python3-foo, libssl-dev} gives {python3-foo}, {libssl-dev}, {vim}.
C4_Partition ==
    (result_data.called /\ result_data.status = "returned") =>
        LET data == result_data.value
        IN  /\ \A n \in pkgs_names :
                   /\ n \in data["py_pkgs"] <=> HasPyth(n)
                   /\ n \in data["lib_pkgs"] <=> (~HasPyth(n) /\ HasLib(n))
                   /\ n \in data["gen_pkgs"] <=> (~HasPyth(n) /\ ~HasLib(n))
            /\ data["py_pkgs"] \cap data["lib_pkgs"] = {}
            /\ data["py_pkgs"] \cap data["gen_pkgs"] = {}
            /\ data["lib_pkgs"] \cap data["gen_pkgs"] = {}
            /\ data["py_pkgs"] \cup data["lib_pkgs"] \cup data["gen_pkgs"]
                   = pkgs_names
            /\ pkgs_names = {vim, python3_foo, libssl_dev}
                   => /\ data["py_pkgs"] = {python3_foo}
                      /\ data["lib_pkgs"] = {libssl_dev}
                      /\ data["gen_pkgs"] = {vim}

\* struct_pkgs has returned on names that hold one name with both 'pyth' and
\* 'lib', one with 'lib' alone and one with neither
C4_Witness ==
    /\ result_data.called /\ result_data.status = "returned"
    /\ pkgs_names = {vim, libssl_dev, libpython3}
    /\ result_data.value["py_pkgs"] = {libpython3}
    /\ result_data.value["lib_pkgs"] = {libssl_dev}
    /\ result_data.value["gen_pkgs"] = {vim}

-----------------------------------------------------------------------------
(* save_data on its own *)

ab == <<"a","b">>

\* names written to the files; a dependency list such as 'a, , b' gives the
\* empty name
SavedNames == {<<"a">>, <<"b">>, ab, <<>>}

GroupKeys == {"full_pkgs", "full_dpnds"}

\* what a file of the backup folder can hold from an earlier run
OldTexts == {<<>>, ab \o NL, <<"b">>}

InitSave ==
    /\ Idle
    /\ pkg_dpnd = <<>>
    /\ parsed = NotCalled
    /\ pkgs_names = {}
    /\ result_data = NotStructured
    /\ \E keys \in SUBSET GroupKeys : kwargs \in [keys -> SUBSET SavedNames]
    /\ folder \in BOOLEAN
    /\ \E old \in SUBSET (GroupKeys \cup {"snap_pkgs"}) :
           /\ old # {} => folder
           /\ files \in [old -> OldTexts]

SaveData ==
    /\ ret.status = "none"
    /\ folder' = TRUE
    /\ \E orders \in [DOMAIN kwargs -> UNION {Orders(kwargs[k]) : k \in DOMAIN kwargs}] :
           /\ \A k \in DOMAIN kwargs : orders[k] \in Orders(kwargs[k])
           /\ files' = save_loop(files, DOMAIN kwargs, orders)
    /\ ret' = Outcome("saved")
    /\ UNCHANGED <<host, _childs, calls, pkg_dpnd, parsed, pkgs_names,
                   result_data, kwargs>>

NextSave == SaveData

SpecSave == InitSave /\ [][NextSave]_vars

\* the lines of a file read back, each without its line break; what follows
\* the last line break is a line too when it is not empty
LinesRead(s) ==
    LET breaks == {i \in DOMAIN s : s[i] = "\n"}
        from(e) == CHOOSE b \in ({0} \cup breaks) :
                       /\ b < e
                       /\ \A c \in breaks : c < e => c <= b
        rest == {i \in DOMAIN s : \A b \in breaks : b < i}
    IN  [lines |-> {SubSeq(s, from(e) + 1, e - 1) : e \in breaks}
                   \cup (IF rest = {} THEN {}
                         ELSE {SubSeq(s, Len(s) - Cardinality(rest) + 1, Len(s))}),
         count |-> Cardinality(breaks) + (IF rest = {} THEN 0 ELSE 1)]

\* C7: after save_data the file of every group key holds one line per member
\* of the group and nothing else, whatever it held before, so that reading it
\* back gives the group.
C7_RoundTrip ==
    ret.status = "saved" =>
        /\ folder
        /\ \A k \in DOMAIN kwargs :
               /\ k \in DOMAIN files
               /\ LinesRead(files[k]).lines = kwargs[k]
               /\ LinesRead(files[k]).count = Cardinality(kwargs[k])

\* {a, b} was written in a folder that held files of an earlier run
C7_Witness ==
    /\ ret.status = "saved"
    /\ "full_pkgs" \in DOMAIN kwargs
    /\ kwargs["full_pkgs"] = {<<"a">>, <<"b">>}
    /\ LinesRead(files["full_pkgs"]).lines = {<<"a">>, <<"b">>}
    /\ "snap_pkgs" \in DOMAIN files

====
